---- MODULE Spec2Model ----
(***************************************************************************)
(* Model of gke-events-notifier (src/main.go, version 0.14, lines 162-336):*)
(* an HTTP server whose handler handlePubSub decodes a Pub/Sub push        *)
(* envelope, filters it by the --allowed-type-urls list and posts a Slack  *)
(* message through sendSlackNotification.                                  *)
(*                                                                         *)
(* Go strings whose characters matter (the allow-list flag, type_url) are  *)
(* sequences of one-character strings, so that splitting on "," and        *)
(* trimming are computed, not assumed.  Other strings are atoms.           *)
(***************************************************************************)
EXTENDS Integers, Sequences, FiniteSets, TLC

VARIABLES
    allowedTypeUrls,   \* *allowedTypeUrls: the flag's value, a character sequence
    slackWebhookUrl,   \* *slackWebhookUrl: the flag's value
    verbose,           \* *verbose: log level is Debug when TRUE, Info otherwise
    pc,                \* per request: "idle", "awaiting" (inside client.Do), "done"
    body,              \* per request: the inbound request body handed to the handler
    resp,              \* per request: the inbound response [status, body]; status 0 = none yet
    sent,              \* per request: the outbound POSTs issued through client.Do
    reply,             \* per request: the sequence of results client.Do returned
    err,               \* per request: what sendSlackNotification returned
    logs,              \* per request: the log events emitted while handling it
    probe,             \* last evaluation of the type filter on a free identifier
    req,               \* per request: its method and path, and the handler the mux chose
    cancelled,         \* per request: r.Context() has been cancelled (client went away)
    waits,             \* per request: the delays the handler has slept between calls
    server,            \* the process: [state, exit]
    fprobe             \* last evaluation of the payload construction on a free message

vars == <<allowedTypeUrls, slackWebhookUrl, verbose, pc, body, resp, sent, reply, err, logs, probe,
          req, cancelled, waits, server, fprobe>>

(***************************************************************************)
(* Bounds                                                                  *)
(***************************************************************************)
NumReq == 2        \* inbound requests handled concurrently
MaxCfgLen == 4     \* longest --allowed-type-urls value enumerated by SpecFilter
MaxTypeLen == 2    \* longest type_url enumerated by SpecFilter

Requests == 1..NumReq

StringsUpTo(alphabet, n) == UNION {[1..k -> alphabet] : k \in 0..n}

EmptyString == <<>>

(***************************************************************************)
(* Configuration: the kingpin flags of lines 182-187.  The flags are set   *)
(* once by kingpin.Parse() (line 319) and only read afterwards.            *)
(***************************************************************************)
\* Values of --allowed-type-urls used by Spec: "", "x", "y,z", "y, z", ",", " ".
AllowedTypeUrlsSamples ==
    { EmptyString,
      <<"x">>,
      <<"y", ",", "z">>,
      <<"y", ",", " ", "z">>,
      <<",">>,
      <<" ">> }

\* Values of --slack-webhook-url: one that url.Parse accepts, one it rejects
\* (a URL with a missing scheme before the colon).
SlackWebhookUrlSamples == {"https://hooks.slack.com/services/T", "://hooks"}

(***************************************************************************)
(* Inbound request bodies.  kind says how far reading and JSON decoding    *)
(* get; data is the JSON string of message.data (base64 on the wire);      *)
(* typeUrl is message.attributes.type_url.  A JSON object that lacks a     *)
(* field decodes exactly like one that carries the empty string, so `{}`   *)
(* is the "object" body with data "" and typeUrl "".                       *)
(***************************************************************************)
TypeUrlSamples == { EmptyString, <<"x">>, <<"z">>, <<" ", "z">>, <<" ">> }

Bodies ==
    {[kind |-> "unreadable", data |-> "", typeUrl |-> EmptyString],
     [kind |-> "syntax", data |-> "", typeUrl |-> EmptyString],
     [kind |-> "typeerr", data |-> "aGVsbG8=", typeUrl |-> <<"x">>],
     [kind |-> "object", data |-> "!!!", typeUrl |-> <<"x">>]}
    \cup {[kind |-> "object", data |-> d, typeUrl |-> t] :
              d \in {"", "aGVsbG8="}, t \in TypeUrlSamples}

NoBody == [kind |-> "none", data |-> "", typeUrl |-> EmptyString]

\* The zero value of PubSubMessage (var m PubSubMessage, line 221).
ZeroMessage ==
    [data |-> "", typeUrl |-> EmptyString, clusterName |-> "",
     clusterLocation |-> "", projectId |-> ""]

\* encoding/json decodes a []byte field from a base64 string (line 192).
Base64Decode(w) ==
    CASE w = "" -> [ok |-> TRUE, bytes |-> ""]
      [] w = "aGVsbG8=" -> [ok |-> TRUE, bytes |-> "hello"]
      [] OTHER -> [ok |-> FALSE, bytes |-> ""]

\* ioutil.ReadAll(r.Body) returns an error (line 222).
ReadAllFails(b) == b.kind = "unreadable"

\* Mutant of Unmarshal: a field of the wrong JSON type is skipped silently.
UnmarshalLenient(b) ==
    IF b.kind = "syntax"
    THEN [m |-> ZeroMessage, err |-> TRUE]
    ELSE [m |-> [ZeroMessage EXCEPT !.data = Base64Decode(b.data).bytes,
                                    !.typeUrl = b.typeUrl,
                                    !.clusterName = "c1",
                                    !.clusterLocation = "europe-west1"],
          err |-> FALSE]

\* json.Unmarshal(body, &m) (line 228).  A syntax error leaves m untouched.  A
\* field of the wrong JSON type (here project_id) or a data string that is not
\* base64 is skipped, the other fields are still stored, and the error is
\* returned at the end: m is then partially filled.
Unmarshal(b) ==
    IF b.kind = "syntax"
    THEN [m |-> ZeroMessage, err |-> TRUE]
    ELSE [m |-> [data |-> Base64Decode(b.data).bytes,
                 typeUrl |-> b.typeUrl,
                 clusterName |-> "c1",
                 clusterLocation |-> "europe-west1",
                 projectId |-> IF b.kind = "typeerr" THEN "" ELSE "p1"],
          err |-> b.kind = "typeerr" \/ ~Base64Decode(b.data).ok]

(***************************************************************************)
(* The type filter, lines 239-254.                                         *)
(***************************************************************************)
RECURSIVE SplitAcc(_, _, _)
SplitAcc(s, cur, acc) ==
    IF s = EmptyString
    THEN Append(acc, cur)
    ELSE IF Head(s) = ","
         THEN SplitAcc(Tail(s), EmptyString, Append(acc, cur))
         ELSE SplitAcc(Tail(s), Append(cur, Head(s)), acc)

\* strings.Split(s, ",") (line 240): every entry is kept as written, empty
\* entries included; Split("", ",") is the one-entry list [""].
Split(s) == SplitAcc(s, EmptyString, <<>>)

\* Mutant of AllowedTypeUrlFound: an entry matches when it starts with the identifier.
AllowedTypeUrlFoundPrefix(typeUrl, cfg) ==
    \E i \in 1..Len(Split(cfg)) :
        /\ Len(typeUrl) <= Len(Split(cfg)[i])
        /\ SubSeq(Split(cfg)[i], 1, Len(typeUrl)) = typeUrl

\* The loop of lines 241-248: == on Go strings is exact, byte for byte.
AllowedTypeUrlFound(typeUrl, cfg) ==
    \E i \in 1..Len(Split(cfg)) : Split(cfg)[i] = typeUrl

\* Mutant of FilterPasses: the list is not consulted.
FilterPassesAlways(typeUrl, cfg) == TRUE

\* Mutant of FilterPasses: a list without any non-blank character allows all.
FilterPassesBlankAllowsAll(typeUrl, cfg) ==
    \/ \A i \in 1..Len(cfg) : cfg[i] \in {" ", ","}
    \/ AllowedTypeUrlFound(typeUrl, cfg)

\* Lines 239-254: the handler goes on to delivery iff the flag is the empty
\* string or the identifier was found in the split list.
FilterPasses(typeUrl, cfg) ==
    cfg = EmptyString \/ AllowedTypeUrlFound(typeUrl, cfg)

(***************************************************************************)
(* Payload, lines 256-263 and 273-282.                                     *)
(***************************************************************************)
\* Mutant of formatMessageAttributes: cluster location is listed before cluster name.
formatMessageAttributesSwapped(m) ==
    << <<"*cluster location:* ", m.clusterLocation>>,
       <<"*cluster name:* ", m.clusterName>>,
       <<"*project id:* ", m.projectId>>,
       <<"*type_url:* ", m.typeUrl>> >>

\* strings.Join of four labelled lines, modelled as the ordered lines.
formatMessageAttributes(m) ==
    << <<"*cluster name:* ", m.clusterName>>,
       <<"*cluster location:* ", m.clusterLocation>>,
       <<"*project id:* ", m.projectId>>,
       <<"*type_url:* ", m.typeUrl>> >>

slackRequestBody(m) ==
    [text |-> m.data, attachments |-> << [text |-> formatMessageAttributes(m)] >>]

(***************************************************************************)
(* sendSlackNotification, lines 284-310.                                   *)
(***************************************************************************)
\* http.NewRequest (line 290) fails when the URL does not parse.
NewRequestFails(url) == url = "://hooks"

OutboundRequest(url, payload) ==
    [method |-> "POST", url |-> url, contentType |-> "application/json",
     body |-> payload]

\* What client.Do can return (line 298): a transport error (connection
\* failure, the 10 s client timeout) or a response with a status and a body.
Replies ==
    {[transportErr |-> TRUE, status |-> 0, body |-> ""]}
    \cup {[transportErr |-> FALSE, status |-> s, body |-> b] :
              s \in {200, 500}, b \in {"ok", "OK", "invalid_payload"}}

\* Mutant of Classify: a non-2xx status is an error as well.
ClassifyWithStatus(rep) ==
    IF rep.transportErr THEN "transport"
    ELSE IF rep.status \notin 200..299 \/ rep.body # "ok" THEN "non-ok"
    ELSE "nil"

\* Lines 299-309: the error sendSlackNotification returns once client.Do is
\* back.  resp.StatusCode is never read.
Classify(rep) ==
    IF rep.transportErr THEN "transport"
    ELSE IF rep.body # "ok" THEN "non-ok"
    ELSE "nil"

(***************************************************************************)
(* Logging.  log.Debugf prints only after log.SetLevel(log.DebugLevel)     *)
(* (lines 321-323); Infof and Errorf always print.                         *)
(***************************************************************************)
\* Mutant of Emit: the log level is Error, so only Errorf prints.
EmitErrorsOnly(l, level, msg) ==
    IF level # "error" THEN l ELSE Append(l, [level |-> level, msg |-> msg])

Emit(l, level, msg) ==
    IF level = "debug" /\ ~verbose THEN l ELSE Append(l, [level |-> level, msg |-> msg])

NoResponse == [status |-> 0, body |-> ""]

\* http.Error(w, "Bad Request", http.StatusBadRequest) (lines 225, 230).
BadRequest == [status |-> 400, body |-> "Bad Request\n"]

\* The handler returns without writing: net/http answers 200 with no body.
ImplicitOK == [status |-> 200, body |-> ""]

(***************************************************************************)
(* handlePubSub, lines 220-271, up to the point where it either returns or *)
(* blocks in client.Do.  The result names the response (NoResponse while   *)
(* blocked), whether an outbound POST was issued, the error                *)
(* sendSlackNotification has returned so far, and the log events.          *)
(***************************************************************************)
HandlerRun(b, cfg, url) ==
    IF ReadAllFails(b)
    THEN [resp |-> BadRequest, send |-> FALSE, err |-> "none", m |-> ZeroMessage,
          logs |-> Emit(<<>>, "info", "ioutil.ReadAll")]
    ELSE IF Unmarshal(b).err
    THEN [resp |-> BadRequest, send |-> FALSE, err |-> "none", m |-> Unmarshal(b).m,
          logs |-> Emit(<<>>, "info", "json.Unmarshal")]
    ELSE
      LET m == Unmarshal(b).m
          l0 == Emit(<<>>, "debug", "Request data")
      IN
      IF m.data = "" \/ m.typeUrl = EmptyString
      THEN [resp |-> ImplicitOK, send |-> FALSE, err |-> "none", m |-> m, logs |-> l0]
      ELSE IF ~FilterPasses(m.typeUrl, cfg)
      THEN [resp |-> ImplicitOK, send |-> FALSE, err |-> "none", m |-> m,
            logs |-> Emit(l0, "info", "not on allowed list, skipping")]
      ELSE
        LET l1 == IF cfg # EmptyString
                  THEN Emit(l0, "debug", "present on allowed list")
                  ELSE l0
            l2 == Emit(l1, "info", "Sending slack notification")
        IN
        IF NewRequestFails(url)
        THEN [resp |-> ImplicitOK, send |-> FALSE, err |-> "NewRequest", m |-> m,
              logs |-> Emit(l2, "error", "Sending slack message fail")]
        ELSE [resp |-> NoResponse, send |-> TRUE, err |-> "none", m |-> m, logs |-> l2]

(***************************************************************************)
(* State machine                                                           *)
(***************************************************************************)
NoProbe == [typeUrl |-> EmptyString, pass |-> FALSE, done |-> FALSE]

NoFormatProbe == [m |-> ZeroMessage, payload |-> slackRequestBody(ZeroMessage), done |-> FALSE]

\* A URL path is the sequence of its segments: "/" is <<>>, "/health" is
\* <<"health">>, "//health" is <<"", "health">>.
RootPath == <<>>

\* The pattern of line 326.
HealthPath == <<"health">>

NoRequestLine == [method |-> "none", path |-> RootPath, handler |-> "none"]

\* The process in main() before http.ListenAndServe has bound the port.
Starting == [state |-> "starting", exit |-> "running", cause |-> "none"]

\* The process after http.ListenAndServe has bound the port (line 335).
Listening == [state |-> "listening", exit |-> "running", cause |-> "none"]

InitRequests ==
    /\ pc = [r \in Requests |-> "idle"]
    /\ body = [r \in Requests |-> NoBody]
    /\ resp = [r \in Requests |-> NoResponse]
    /\ sent = [r \in Requests |-> <<>>]
    /\ reply = [r \in Requests |-> <<>>]
    /\ err = [r \in Requests |-> "none"]
    /\ logs = [r \in Requests |-> <<>>]
    /\ probe = NoProbe
    /\ req = [r \in Requests |-> NoRequestLine]
    /\ cancelled = [r \in Requests |-> FALSE]
    /\ waits = [r \in Requests |-> <<>>]
    /\ fprobe = NoFormatProbe

\* main() up to ListenAndServe (lines 312-335): the flags are parsed, nothing
\* has been received.
Init ==
    /\ allowedTypeUrls \in AllowedTypeUrlsSamples
    /\ slackWebhookUrl \in SlackWebhookUrlSamples
    /\ verbose \in BOOLEAN
    /\ server = Listening
    /\ InitRequests

\* The server hands request r with body b to handlePubSub, which runs until it
\* returns or blocks in client.Do (line 298).
HandlePubSub(r, b) ==
    LET h == HandlerRun(b, allowedTypeUrls, slackWebhookUrl) IN
    /\ pc[r] = "idle"
    /\ body' = [body EXCEPT ![r] = b]
    /\ resp' = [resp EXCEPT ![r] = h.resp]
    /\ err' = [err EXCEPT ![r] = h.err]
    /\ logs' = [logs EXCEPT ![r] = h.logs]
    /\ sent' = [sent EXCEPT ![r] =
                   IF h.send
                   THEN <<OutboundRequest(slackWebhookUrl, slackRequestBody(h.m))>>
                   ELSE <<>>]
    /\ pc' = [pc EXCEPT ![r] = IF h.send THEN "awaiting" ELSE "done"]
    /\ UNCHANGED <<allowedTypeUrls, slackWebhookUrl, verbose, reply, probe, cancelled, waits, server, fprobe>>

\* Mutant of ClientDoReturns: a failed call is followed, after a doubling
\* backoff wait, by another call.
ClientDoReturnsRetrying(r, rep) ==
    /\ server = Listening
    /\ pc[r] = "awaiting"
    /\ reply' = [reply EXCEPT ![r] = Append(@, rep)]
    /\ err' = [err EXCEPT ![r] = Classify(rep)]
    /\ IF Classify(rep) # "nil"
       THEN /\ sent' = [sent EXCEPT ![r] = Append(@, Head(@))]
            /\ waits' = [waits EXCEPT ![r] = Append(@, 2 ^ Len(@))]
            /\ UNCHANGED <<pc, resp, logs>>
       ELSE /\ pc' = [pc EXCEPT ![r] = "done"]
            /\ resp' = [resp EXCEPT ![r] = ImplicitOK]
            /\ UNCHANGED <<sent, logs, waits>>
    /\ UNCHANGED <<allowedTypeUrls, slackWebhookUrl, verbose, body, probe, req, cancelled, server, fprobe>>

\* Mutant of ClientDoReturns: the payload is posted again after an acknowledged
\* call, and the handler returns only when a call fails.
ClientDoReturnsResending(r, rep) ==
    /\ server = Listening
    /\ pc[r] = "awaiting"
    /\ reply' = [reply EXCEPT ![r] = Append(@, rep)]
    /\ err' = [err EXCEPT ![r] = Classify(rep)]
    /\ IF Classify(rep) = "nil"
       THEN /\ sent' = [sent EXCEPT ![r] = Append(@, Head(@))]
            /\ UNCHANGED <<pc, resp, logs>>
       ELSE /\ pc' = [pc EXCEPT ![r] = "done"]
            /\ resp' = [resp EXCEPT ![r] = ImplicitOK]
            /\ logs' = [logs EXCEPT ![r] = Emit(@, "error", "Sending slack message fail")]
            /\ UNCHANGED sent
    /\ UNCHANGED waits
    /\ UNCHANGED <<allowedTypeUrls, slackWebhookUrl, verbose, body, probe, req, cancelled, server, fprobe>>

\* Mutant of ClientDoReturns: the error of the last delivery is kept in one
\* package-level variable that every handler reads.
ClientDoReturnsSharedErr(r, rep) ==
    /\ server = Listening
    /\ pc[r] = "awaiting"
    /\ reply' = [reply EXCEPT ![r] = Append(@, rep)]
    /\ err' = [q \in Requests |-> IF pc[q] = "idle" THEN err[q] ELSE Classify(rep)]
    /\ logs' = [logs EXCEPT ![r] =
                   IF Classify(rep) # "nil"
                   THEN Emit(@, "error", "Sending slack message fail")
                   ELSE @]
    /\ resp' = [resp EXCEPT ![r] = ImplicitOK]
    /\ pc' = [pc EXCEPT ![r] = "done"]
    /\ UNCHANGED <<allowedTypeUrls, slackWebhookUrl, verbose, body, sent, probe, req,
                   cancelled, waits, server, fprobe>>

\* Mutant of ClientDoReturns: a failed call is repeated without any limit.
ClientDoReturnsRetryForever(r, rep) ==
    /\ server = Listening
    /\ pc[r] = "awaiting"
    /\ reply' = [reply EXCEPT ![r] = <<rep>>]
    /\ err' = [err EXCEPT ![r] = Classify(rep)]
    /\ IF Classify(rep) # "nil"
       THEN UNCHANGED <<pc, resp, logs>>
       ELSE /\ pc' = [pc EXCEPT ![r] = "done"]
            /\ resp' = [resp EXCEPT ![r] = ImplicitOK]
            /\ UNCHANGED logs
    /\ UNCHANGED <<allowedTypeUrls, slackWebhookUrl, verbose, body, sent, probe, req,
                   cancelled, waits, server, fprobe>>

\* Mutant of ClientDoReturns: a cancelled request ends as a cancellation failure.
ClientDoReturnsCancellable(r, rep) ==
    /\ server = Listening
    /\ pc[r] = "awaiting"
    /\ reply' = [reply EXCEPT ![r] = Append(@, rep)]
    /\ err' = [err EXCEPT ![r] = IF cancelled[r] THEN "cancelled" ELSE Classify(rep)]
    /\ logs' = [logs EXCEPT ![r] =
                   IF cancelled[r] \/ Classify(rep) # "nil"
                   THEN Emit(@, "error", "Sending slack message fail")
                   ELSE @]
    /\ resp' = [resp EXCEPT ![r] = ImplicitOK]
    /\ pc' = [pc EXCEPT ![r] = "done"]
    /\ UNCHANGED <<allowedTypeUrls, slackWebhookUrl, verbose, body, sent, probe, req,
                   cancelled, waits, server, fprobe>>

\* client.Do returns rep to request r (line 298); sendSlackNotification
\* classifies it and returns (lines 299-309); handlePubSub logs an error if
\* there is one (lines 266-268) and returns, which answers the inbound
\* request with the implicit 200.
ClientDoReturns(r, rep) ==
    /\ server = Listening
    /\ pc[r] = "awaiting"
    /\ reply' = [reply EXCEPT ![r] = Append(@, rep)]
    /\ err' = [err EXCEPT ![r] = Classify(rep)]
    /\ logs' = [logs EXCEPT ![r] =
                   IF Classify(rep) # "nil"
                   THEN Emit(@, "error", "Sending slack message fail")
                   ELSE @]
    /\ resp' = [resp EXCEPT ![r] = ImplicitOK]
    /\ pc' = [pc EXCEPT ![r] = "done"]
    /\ UNCHANGED <<allowedTypeUrls, slackWebhookUrl, verbose, body, sent, probe, req, cancelled, waits, server, fprobe>>

(***************************************************************************)
(* Routing, lines 325-326 and 335: ListenAndServe with a nil handler       *)
(* serves http.DefaultServeMux, on which "/" and "/health" are registered. *)
(***************************************************************************)
\* net/http cleanPath on the segments of the model: empty and "." segments go.
CleanPath(p) == SelectSeq(p, LAMBDA seg : seg \notin {"", "."})

\* Mutant of MuxHandler: the liveness route is not registered.
MuxHandlerNoHealth(method, path) ==
    IF method # "CONNECT" /\ CleanPath(path) # path
    THEN "redirect"
    ELSE "handlePubSub"

\* Mutant of MuxHandler: the notification route accepts POST only.
MuxHandlerPostOnly(method, path) ==
    IF method # "CONNECT" /\ CleanPath(path) # path
    THEN "redirect"
    ELSE IF path = HealthPath THEN "internalHealth"
    ELSE IF method = "POST" THEN "handlePubSub"
    ELSE "redirect"

\* ServeMux.Handler: a request other than CONNECT whose path is not in
\* canonical form is answered by a redirect to the cleaned path; otherwise
\* the pattern "/health" matches that path alone and "/" matches every
\* other path.  The method plays no other part.
MuxHandler(method, path) ==
    IF method # "CONNECT" /\ CleanPath(path) # path
    THEN "redirect"
    ELSE IF path = HealthPath THEN "internalHealth"
    ELSE "handlePubSub"

\* internalHealth, lines 216-218: writes "OK\n"; the status is the implicit 200.
InternalHealth(r) ==
    /\ pc[r] = "idle"
    /\ resp' = [resp EXCEPT ![r] = [status |-> 200, body |-> "OK\n"]]
    /\ pc' = [pc EXCEPT ![r] = "done"]
    /\ UNCHANGED <<allowedTypeUrls, slackWebhookUrl, verbose, body, sent, reply, err, logs,
                   probe, cancelled, waits, server, fprobe>>

\* http.RedirectHandler(cleaned, 301): no registered handler runs.
Redirect(r, method) ==
    /\ pc[r] = "idle"
    /\ resp' = [resp EXCEPT ![r] =
                   [status |-> 301,
                    body |-> IF method \in {"GET", "HEAD"} THEN "Moved Permanently" ELSE ""]]
    /\ pc' = [pc EXCEPT ![r] = "done"]
    /\ UNCHANGED <<allowedTypeUrls, slackWebhookUrl, verbose, body, sent, reply, err, logs,
                   probe, cancelled, waits, server, fprobe>>

\* The server accepts request r (method, path, body b) and runs the handler
\* the mux chooses, in the request's own goroutine.
ServeHTTP(r, method, path, b) ==
    /\ server = Listening
    /\ pc[r] = "idle"
    /\ req' = [req EXCEPT ![r] = [method |-> method, path |-> path,
                                  handler |-> MuxHandler(method, path)]]
    /\ IF MuxHandler(method, path) = "handlePubSub" THEN HandlePubSub(r, b)
       ELSE IF MuxHandler(method, path) = "internalHealth" THEN InternalHealth(r)
       ELSE Redirect(r, method)

Next ==
    \/ \E r \in Requests, b \in Bodies : ServeHTTP(r, "POST", RootPath, b)
    \/ \E r \in Requests, rep \in Replies : ClientDoReturns(r, rep)

Spec == Init /\ [][Next]_vars

\* Every client.Do returns: the client is built with Timeout: 10 * time.Second
\* (line 297), so a call that gets no answer ends with a transport error.
SpecLive ==
    /\ Init
    /\ [][Next]_vars
    /\ \A r \in Requests : WF_vars(\E rep \in Replies : ClientDoReturns(r, rep))

(***************************************************************************)
(* The type filter on its own: every flag value and every identifier up to *)
(* the bounds, evaluated as lines 239-254 evaluate them.                   *)
(***************************************************************************)
CfgAlphabet == {"y", "z", " ", ","}

TypeAlphabet == {"z", "Z", " "}

InitFilter ==
    /\ allowedTypeUrls \in StringsUpTo(CfgAlphabet, MaxCfgLen)
    /\ slackWebhookUrl = "https://hooks.slack.com/services/T"
    /\ verbose = FALSE
    /\ server = Listening
    /\ InitRequests

FilterProbe(t) ==
    /\ probe' = [typeUrl |-> t, pass |-> FilterPasses(t, allowedTypeUrls), done |-> TRUE]
    /\ UNCHANGED <<allowedTypeUrls, slackWebhookUrl, verbose, pc, body, resp, sent,
                   reply, err, logs, req, cancelled, waits, server, fprobe>>

NextFilter == \E t \in StringsUpTo(TypeAlphabet, MaxTypeLen) : FilterProbe(t)

SpecFilter == InitFilter /\ [][NextFilter]_vars

(***************************************************************************)
(* Routing on its own: every method and path of the samples, a small set   *)
(* of bodies and replies, concurrent requests.                             *)
(***************************************************************************)
Methods == {"POST", "GET", "CONNECT"}

\* "/", "/health", "/healthz", "//hook".
PathSamples == {RootPath, HealthPath, <<"healthz">>, <<"", "hook">>}

AcceptedEnvelope == [kind |-> "object", data |-> "aGVsbG8=", typeUrl |-> <<"x">>]

\* An empty body (a GET without body) is a JSON syntax error.
EmptyBody == [kind |-> "syntax", data |-> "", typeUrl |-> EmptyString]

RouteBodies == {AcceptedEnvelope, EmptyBody}

OkReply == [transportErr |-> FALSE, status |-> 200, body |-> "ok"]

TransportError == [transportErr |-> TRUE, status |-> 0, body |-> ""]

RouteReplies == {OkReply, TransportError}

InitRoute ==
    /\ allowedTypeUrls \in {EmptyString, <<"y", ",", "z">>}
    /\ slackWebhookUrl = "https://hooks.slack.com/services/T"
    /\ verbose = FALSE
    /\ server = Listening
    /\ InitRequests

NextRoute ==
    \/ \E r \in Requests, method \in Methods, path \in PathSamples, b \in RouteBodies :
          ServeHTTP(r, method, path, b)
    \/ \E r \in Requests, rep \in RouteReplies : ClientDoReturns(r, rep)

SpecRoute == InitRoute /\ [][NextRoute]_vars

(***************************************************************************)
(* Cancellation.  The server cancels r.Context() when the client's         *)
(* connection goes away.  handlePubSub never reads r.Context(), and        *)
(* sendSlackNotification builds its request with http.NewRequest (line     *)
(* 290), that is with the background context.                              *)
(***************************************************************************)
Cancel(r) ==
    /\ server = Listening
    /\ pc[r] = "awaiting"
    /\ ~cancelled[r]
    /\ cancelled' = [cancelled EXCEPT ![r] = TRUE]
    /\ UNCHANGED <<allowedTypeUrls, slackWebhookUrl, verbose, pc, body, resp, sent, reply,
                   err, logs, probe, req, waits, server, fprobe>>

NextCancel ==
    \/ \E r \in Requests, b \in RouteBodies : ServeHTTP(r, "POST", RootPath, b)
    \/ \E r \in Requests, rep \in Replies : ClientDoReturns(r, rep)
    \/ \E r \in Requests : Cancel(r)

SpecCancel == InitRoute /\ [][NextCancel]_vars

(***************************************************************************)
(* Process lifecycle, lines 312-336.  main() installs no signal handler    *)
(* and calls no Shutdown: a termination signal ends the process by the Go  *)
(* runtime's default action, and log.Fatal exits with status 1 whenever    *)
(* ListenAndServe returns.                                                 *)
(***************************************************************************)
\* http.ListenAndServe binds the port and starts accepting (line 335).
Listen ==
    /\ server = Starting
    /\ server' = Listening
    /\ UNCHANGED <<allowedTypeUrls, slackWebhookUrl, verbose, pc, body, resp, sent, reply,
                   err, logs, probe, req, cancelled, waits, fprobe>>

\* http.ListenAndServe returns an error (the port cannot be bound, the
\* listener fails): log.Fatal prints it and calls os.Exit(1) (line 335).
\* Handlers in flight end with the process.
ListenAndServeFails ==
    /\ server.state \in {"starting", "listening"}
    /\ server' = [state |-> "stopped", exit |-> "status 1", cause |-> "listener error"]
    /\ UNCHANGED <<allowedTypeUrls, slackWebhookUrl, verbose, pc, body, resp, sent, reply,
                   err, logs, probe, req, cancelled, waits, fprobe>>

\* Mutant of Terminate: the signal is caught and the process exits with status 0.
TerminateGraceful ==
    /\ server.state \in {"starting", "listening"}
    /\ server' = [state |-> "stopped", exit |-> "status 0", cause |-> "signal"]
    /\ UNCHANGED <<allowedTypeUrls, slackWebhookUrl, verbose, pc, body, resp, sent, reply,
                   err, logs, probe, req, cancelled, waits, fprobe>>

\* SIGTERM or SIGINT arrives: nothing catches it, the process is killed by
\* the signal at once.  Handlers in flight end with the process.
Terminate ==
    /\ server.state \in {"starting", "listening"}
    /\ server' = [state |-> "stopped", exit |-> "killed by signal", cause |-> "signal"]
    /\ UNCHANGED <<allowedTypeUrls, slackWebhookUrl, verbose, pc, body, resp, sent, reply,
                   err, logs, probe, req, cancelled, waits, fprobe>>

InitLife ==
    /\ allowedTypeUrls = EmptyString
    /\ slackWebhookUrl = "https://hooks.slack.com/services/T"
    /\ verbose = FALSE
    /\ server = Starting
    /\ InitRequests

NextLife ==
    \/ Listen
    \/ ListenAndServeFails
    \/ Terminate
    \/ \E r \in Requests, b \in RouteBodies : ServeHTTP(r, "POST", RootPath, b)
    \/ \E r \in Requests, rep \in Replies : ClientDoReturns(r, rep)

SpecLife == InitLife /\ [][NextLife]_vars

(***************************************************************************)
(* The payload construction on its own (lines 256-263 and 273-282): every  *)
(* decoded message of an accepted event, up to the bounds.                 *)
(***************************************************************************)
FormatTypeAlphabet == {"g", ".", "F"}

AcceptedMessages ==
    [data : {"hello", "<!channel> *x*"},
     typeUrl : StringsUpTo(FormatTypeAlphabet, MaxTypeLen) \ {EmptyString},
     clusterName : {"", "c1"},
     clusterLocation : {"", "europe-west1"},
     projectId : {"", "p1"}]

FormatProbe(m) ==
    /\ fprobe' = [m |-> m, payload |-> slackRequestBody(m), done |-> TRUE]
    /\ UNCHANGED <<allowedTypeUrls, slackWebhookUrl, verbose, pc, body, resp, sent, reply,
                   err, logs, probe, req, cancelled, waits, server>>

NextFormat == \E m \in AcceptedMessages : FormatProbe(m)

SpecFormat == InitLife /\ [][NextFormat]_vars

(***************************************************************************)
(* Vocabulary of the properties                                            *)
(***************************************************************************)
\* The body was read and json.Unmarshal accepts it.
WellFormed(b) == b.kind = "object" /\ Base64Decode(b.data).ok

EventData(b) == Base64Decode(b.data).bytes

\* x is an entry of the comma-separated value cfg: a comma-free stretch of cfg
\* that is bounded on each side by a comma or by an end of cfg.
IsEntry(x, cfg) ==
    /\ \A k \in 1..Len(x) : x[k] # ","
    /\ \E i \in 0..Len(cfg) :
          /\ i + Len(x) <= Len(cfg)
          /\ SubSeq(cfg, i + 1, i + Len(x)) = x
          /\ (i = 0 \/ cfg[i] = ",")
          /\ (i + Len(x) = Len(cfg) \/ cfg[i + Len(x) + 1] = ",")

RECURSIVE TrimLeft(_)
TrimLeft(s) == IF s # EmptyString /\ Head(s) = " " THEN TrimLeft(Tail(s)) ELSE s

RECURSIVE TrimRight(_)
TrimRight(s) ==
    IF s # EmptyString /\ s[Len(s)] = " " THEN TrimRight(SubSeq(s, 1, Len(s) - 1)) ELSE s

\* strings.TrimSpace on the characters of the model.
Trim(s) == TrimRight(TrimLeft(s))

\* The AllowList as the specification defines it: the trimmed, non-empty entries.
TrimmedAllowList(cfg) ==
    {Trim(Split(cfg)[i]) : i \in 1..Len(Split(cfg))} \ {EmptyString}

\* The event of request r was handed to sendSlackNotification.
HandedToDelivery(r) == sent[r] # <<>> \/ err[r] = "NewRequest"

DeliveryFailed(r) == err[r] \in {"NewRequest", "transport", "non-ok"}

SuccessReply(rep) == ~rep.transportErr /\ rep.status \in 200..299 /\ rep.body = "ok"

(***************************************************************************)
(* C1.  An outbound call has been issued for a request only if its body    *)
(* decoded without error, the decoded data is non-empty, the type          *)
(* identifier is non-empty, and the allow-list flag is empty or has the    *)
(* identifier among its entries.                                           *)
(***************************************************************************)
C1_DeliveryOnlyIfAccepted ==
    \A r \in Requests :
        sent[r] # <<>> =>
            /\ WellFormed(body[r])
            /\ EventData(body[r]) # ""
            /\ body[r].typeUrl # EmptyString
            /\ (allowedTypeUrls = EmptyString \/ IsEntry(body[r].typeUrl, allowedTypeUrls))

C1_Witness ==
    \E r \in Requests :
        /\ sent[r] # <<>>
        /\ allowedTypeUrls # EmptyString
        /\ IsEntry(body[r].typeUrl, allowedTypeUrls)

(***************************************************************************)
(* C2.  Whenever delivery fails for an accepted event, the handler answers *)
(* the inbound request with 500, never with 200.  (Stated as claimed; the  *)
(* code answers 200.)                                                      *)
(***************************************************************************)
C2_FailureAnswered500 ==
    \A r \in Requests :
        (pc[r] = "done" /\ DeliveryFailed(r)) => resp[r].status = 500

(***************************************************************************)
(* C3.  As claimed: when the destination fails on every attempt, exactly 3 *)
(* outbound calls are made and the handler then answers 500.               *)
(***************************************************************************)
C3_ThreeCallsThen500 ==
    \A r \in Requests :
        (/\ pc[r] = "done"
         /\ reply[r] # <<>>
         /\ \A i \in 1..Len(reply[r]) : ~SuccessReply(reply[r][i]))
        => (Len(sent[r]) = 3 /\ resp[r].status = 500)

(***************************************************************************)
(* C3, amended.  A failed attempt is never followed by another attempt:    *)
(* while the single call is in flight nothing has been answered, and when  *)
(* the call has failed exactly 1 outbound call was made for the request    *)
(* and only then has the handler responded.                                *)
(***************************************************************************)
C3_FailedAttemptNotRetried ==
    \A r \in Requests :
        /\ pc[r] = "awaiting" =>
              (Len(sent[r]) = 1 /\ reply[r] = <<>> /\ resp[r] = NoResponse)
        /\ (reply[r] # <<>> /\ DeliveryFailed(r)) =>
              (/\ Len(sent[r]) = 1
               /\ Len(reply[r]) = 1
               /\ pc[r] = "done"
               /\ resp[r] # NoResponse)

C3_Witness ==
    \E r \in Requests :
        /\ pc[r] = "done"
        /\ Len(reply[r]) = 1
        /\ ~reply[r][1].transportErr
        /\ reply[r][1].status = 500
        /\ err[r] = "non-ok"

(***************************************************************************)
(* C4.  For every request the outbound calls never exceed 3, every one of  *)
(* them carries the payload built from that request's own body, and no     *)
(* outbound call is made for a request once its handler has responded.     *)
(***************************************************************************)
C4_BoundedSingleSequence ==
    /\ [](\A r \in Requests :
            /\ Len(sent[r]) <= 3
            /\ Len(reply[r]) <= Len(sent[r])
            /\ \A i \in 1..Len(sent[r]) :
                  sent[r][i] = OutboundRequest(slackWebhookUrl,
                                               slackRequestBody(Unmarshal(body[r]).m)))
    /\ [][\A r \in Requests : resp[r] # NoResponse => sent'[r] = sent[r]]_vars

C4_Witness ==
    \E r, q \in Requests :
        /\ r # q
        /\ pc[r] = "done" /\ Len(sent[r]) = 1 /\ DeliveryFailed(r)
        /\ pc[q] = "awaiting"
        /\ body[q] # body[r]

(***************************************************************************)
(* C5.  A successful attempt is terminal: once client.Do has returned a    *)
(* success status with body `ok`, the request is finished with status 200  *)
(* and exactly one outbound call was made for it.                          *)
(***************************************************************************)
C5_SuccessIsTerminal ==
    \A r \in Requests :
        (\E i \in 1..Len(reply[r]) : SuccessReply(reply[r][i])) =>
            /\ pc[r] = "done"
            /\ resp[r].status = 200
            /\ Len(sent[r]) = 1
            /\ Len(reply[r]) = 1
            /\ err[r] = "nil"

C5_Witness ==
    \E r \in Requests :
        /\ pc[r] = "done"
        /\ reply[r] = <<[transportErr |-> FALSE, status |-> 200, body |-> "ok"]>>
        /\ allowedTypeUrls = EmptyString
        /\ body[r] = [kind |-> "object", data |-> "aGVsbG8=", typeUrl |-> <<"x">>]

(***************************************************************************)
(* C6.  As claimed: an attempt is a success iff there was no transport     *)
(* error, the status is a success code and the body is `ok`.               *)
(***************************************************************************)
C6_SuccessNeedsStatus ==
    \A r \in Requests :
        Len(reply[r]) = 1 => (err[r] = "nil" <=> SuccessReply(reply[r][1]))

(***************************************************************************)
(* C6, amended.  An attempt is a success iff there was no transport error  *)
(* and the body is exactly `ok`; the status code plays no part, so a       *)
(* non-success status with body `ok` is a success.                         *)
(***************************************************************************)
C6_SuccessIffBodyOk ==
    \A r \in Requests :
        Len(reply[r]) = 1 =>
            (err[r] = "nil" <=> (~reply[r][1].transportErr /\ reply[r][1].body = "ok"))

C6_Witness ==
    \E r \in Requests :
        /\ Len(reply[r]) = 1
        /\ reply[r][1] = [transportErr |-> FALSE, status |-> 500, body |-> "ok"]
        /\ err[r] = "nil"

(***************************************************************************)
(* C7.  A request whose body cannot be read or that json.Unmarshal rejects *)
(* is answered 400 and causes no outbound call, also when the envelope was *)
(* partially decoded.                                                      *)
(***************************************************************************)
C7_MalformedIs400 ==
    \A r \in Requests :
        (pc[r] # "idle" /\ ~WellFormed(body[r])) =>
            /\ pc[r] = "done"
            /\ resp[r] = BadRequest
            /\ sent[r] = <<>>
            /\ ~HandedToDelivery(r)

C7_Witness ==
    \E r \in Requests :
        /\ pc[r] = "done"
        /\ body[r].kind = "typeerr"
        /\ allowedTypeUrls = EmptyString
        /\ resp[r].status = 400

(***************************************************************************)
(* C8.  A well-formed request that is a no-op (empty data, empty type      *)
(* identifier, or identifier not among the entries of a non-empty list) is *)
(* answered 200 and no outbound call is made for it.                       *)
(***************************************************************************)
C8_NoOpIs200 ==
    \A r \in Requests :
        (/\ pc[r] # "idle"
         /\ WellFormed(body[r])
         /\ \/ EventData(body[r]) = ""
            \/ body[r].typeUrl = EmptyString
            \/ (/\ allowedTypeUrls # EmptyString
                /\ ~IsEntry(body[r].typeUrl, allowedTypeUrls)))
        => (/\ pc[r] = "done"
            /\ resp[r].status = 200
            /\ sent[r] = <<>>
            /\ ~HandedToDelivery(r))

C8_Witness ==
    \E r \in Requests :
        /\ pc[r] = "done"
        /\ allowedTypeUrls = <<"y", ",", "z">>
        /\ body[r] = [kind |-> "object", data |-> "aGVsbG8=", typeUrl |-> <<"x">>]
        /\ resp[r].status = 200
        /\ sent[r] = <<>>

(***************************************************************************)
(* C9.  As claimed: for a non-empty allow-list the filter passes t iff     *)
(* trim(t) equals trim(x) for some entry x.                                *)
(***************************************************************************)
C9_FilterTrims ==
    (probe.done /\ TrimmedAllowList(allowedTypeUrls) # {}) =>
        (probe.pass <=> Trim(probe.typeUrl) \in TrimmedAllowList(allowedTypeUrls))

(***************************************************************************)
(* C9, amended.  For a non-empty flag value the filter passes t iff t is   *)
(* equal, character for character, to one of the comma-separated entries   *)
(* as written: case-sensitive, no prefix or wildcard matching, and no      *)
(* trimming of either side.                                                *)
(***************************************************************************)
C9_FilterExactEntry ==
    (probe.done /\ allowedTypeUrls # EmptyString) =>
        (probe.pass <=> IsEntry(probe.typeUrl, allowedTypeUrls))

C9_Witness ==
    /\ probe.done
    /\ allowedTypeUrls = <<"y", ",", " ", "z">>
    /\ probe.typeUrl = <<"z">>
    /\ ~probe.pass

(***************************************************************************)
(* C10.  As claimed: when the AllowList (trimmed, non-empty entries) is    *)
(* empty, every event with non-empty data and type identifier is handed to *)
(* delivery.                                                               *)
(***************************************************************************)
C10_BlankListAllowsAll ==
    \A r \in Requests :
        (/\ pc[r] # "idle"
         /\ WellFormed(body[r])
         /\ EventData(body[r]) # ""
         /\ body[r].typeUrl # EmptyString
         /\ TrimmedAllowList(allowedTypeUrls) = {})
        => HandedToDelivery(r)

(***************************************************************************)
(* C10, amended.  When the flag value is the empty string, every event     *)
(* with non-empty data and type identifier is handed to delivery; any      *)
(* other value, one made only of separators and whitespace included, is a  *)
(* list in force: such an event is handed to delivery iff its identifier   *)
(* equals one of the entries as written.                                   *)
(***************************************************************************)
C10_OnlyEmptyFlagAllowsAll ==
    \A r \in Requests :
        (/\ pc[r] # "idle"
         /\ WellFormed(body[r])
         /\ EventData(body[r]) # ""
         /\ body[r].typeUrl # EmptyString)
        => (HandedToDelivery(r) <=>
               (allowedTypeUrls = EmptyString \/ IsEntry(body[r].typeUrl, allowedTypeUrls)))

C10_Witness ==
    \E r \in Requests :
        /\ pc[r] = "done"
        /\ allowedTypeUrls = <<",">>
        /\ body[r] = [kind |-> "object", data |-> "aGVsbG8=", typeUrl |-> <<"x">>]
        /\ ~HandedToDelivery(r)

(***************************************************************************)
(* C13.  As claimed: a GET /healthz is answered 200 with body "OK\n", is   *)
(* not dispatched to the notification handler and causes no outbound call. *)
(***************************************************************************)
C13_HealthzIsLiveness ==
    \A r \in Requests :
        (pc[r] # "idle" /\ req[r].method = "GET" /\ req[r].path = <<"healthz">>) =>
            /\ resp[r] = [status |-> 200, body |-> "OK\n"]
            /\ req[r].handler # "handlePubSub"
            /\ sent[r] = <<>>

(***************************************************************************)
(* C13, amended.  The liveness path is /health: in every reachable server  *)
(* state, also while other requests are in flight or have failed, a        *)
(* GET /health is answered 200 with body "OK\n", is never dispatched to    *)
(* the notification handler, causes no outbound call, reads no body, logs  *)
(* nothing and changes nothing of any other request.                       *)
(***************************************************************************)
C13_HealthIsLiveness ==
    /\ [](\A r \in Requests :
            (req[r].method = "GET" /\ req[r].path = HealthPath) =>
                /\ pc[r] = "done"
                /\ resp[r] = [status |-> 200, body |-> "OK\n"]
                /\ req[r].handler = "internalHealth"
                /\ sent[r] = <<>> /\ reply[r] = <<>> /\ err[r] = "none"
                /\ body[r] = NoBody /\ logs[r] = <<>>)
    /\ [][\A r \in Requests :
            (req[r] = NoRequestLine /\ req'[r].path = HealthPath) =>
                /\ UNCHANGED <<sent, reply, err, logs, body, server>>
                /\ \A q \in Requests \ {r} :
                      pc'[q] = pc[q] /\ resp'[q] = resp[q] /\ req'[q] = req[q]]_vars

C13_Witness ==
    \E r, q \in Requests :
        /\ r # q
        /\ req[r].method = "GET" /\ req[r].path = HealthPath
        /\ resp[r] = [status |-> 200, body |-> "OK\n"]
        /\ pc[q] = "awaiting"
        /\ req[q].path = <<"healthz">>

(***************************************************************************)
(* C19.  As claimed: every request whose path is not the liveness path is  *)
(* dispatched to the notification handler.                                 *)
(***************************************************************************)
C19_EveryOtherPathDispatched ==
    \A r \in Requests :
        (pc[r] # "idle" /\ req[r].path # HealthPath) => req[r].handler = "handlePubSub"

(***************************************************************************)
(* C19, amended.  Every request whose path is in canonical form and is not *)
(* the liveness path is dispatched to the notification handler, and what   *)
(* the handler does (400, no-op, delivery) depends only on the body and    *)
(* the configuration, not on the method or the path.                       *)
(***************************************************************************)
C19_CanonicalPathDispatched ==
    \A r \in Requests :
        (/\ pc[r] # "idle"
         /\ req[r].path # HealthPath
         /\ CleanPath(req[r].path) = req[r].path)
        => /\ req[r].handler = "handlePubSub"
           /\ (resp[r] = BadRequest <=> ~WellFormed(body[r]))
           /\ (sent[r] # <<>> <=>
                  (/\ WellFormed(body[r])
                   /\ EventData(body[r]) # ""
                   /\ body[r].typeUrl # EmptyString
                   /\ (allowedTypeUrls = EmptyString
                       \/ IsEntry(body[r].typeUrl, allowedTypeUrls))))

C19_Witness ==
    \E r \in Requests :
        /\ req[r].method = "GET"
        /\ req[r].path = <<"healthz">>
        /\ body[r] = AcceptedEnvelope
        /\ pc[r] = "done"
        /\ reply[r] = <<OkReply>>

C12_BackoffDoubles ==
    \A r \in Requests :
        (/\ pc[r] = "done"
         /\ reply[r] # <<>>
         /\ \A i \in 1..Len(reply[r]) : ~SuccessReply(reply[r][i]))
        => waits[r] = <<1, 2>>

(***************************************************************************)
(* C12, amended.  The handler never waits: a failed attempt is the only    *)
(* attempt, no delay precedes or follows it, and the failure is returned   *)
(* as soon as client.Do is back.                                           *)
(***************************************************************************)
C12_NoBackoff ==
    \A r \in Requests :
        /\ waits[r] = <<>>
        /\ Len(sent[r]) <= 1
        /\ (reply[r] # <<>> /\ DeliveryFailed(r)) => pc[r] = "done"

C12_Witness ==
    \E r \in Requests :
        /\ pc[r] = "done"
        /\ reply[r] = <<TransportError>>
        /\ waits[r] = <<>>

(***************************************************************************)
(* C14.  As claimed: a process stopped by a termination signal while it    *)
(* was listening (it has served a request) ends with exit code 0.          *)
(***************************************************************************)
C14_SignalExitsZero ==
    (/\ server.state = "stopped"
     /\ server.cause = "signal"
     /\ \E r \in Requests : pc[r] = "done")
    => server.exit = "status 0"

(***************************************************************************)
(* C14, amended.  The lifecycle is Starting -> Listening -> Stopped with   *)
(* no Draining state: a termination signal stops the process at once, a    *)
(* request in flight at that moment never receives a response, and the     *)
(* process never ends with exit code 0 (it is killed by the signal, or     *)
(* exits 1 on a startup or listener error).                                *)
(***************************************************************************)
C14_NoDraining ==
    /\ [](/\ server.state \in {"starting", "listening", "stopped"}
          /\ server.exit # "status 0"
          /\ server.state = "stopped" =>
                \/ (server.cause = "signal" /\ server.exit = "killed by signal")
                \/ (server.cause = "listener error" /\ server.exit = "status 1"))
    /\ [][/\ <<server.state, server'.state>> \in
               {<<"starting", "starting">>, <<"starting", "listening">>,
                <<"listening", "listening">>, <<"starting", "stopped">>,
                <<"listening", "stopped">>, <<"stopped", "stopped">>}
          /\ server'.state = "stopped" => (resp' = resp /\ pc' = pc /\ sent' = sent)]_vars

C14_Witness ==
    /\ server.state = "stopped"
    /\ server.cause = "signal"
    /\ \E r \in Requests : pc[r] = "awaiting" /\ resp[r] = NoResponse

\* The position of the last "." of t, 0 when there is none.
LastDot(t) ==
    IF \E i \in 1..Len(t) : t[i] = "."
    THEN CHOOSE i \in 1..Len(t) : t[i] = "." /\ \A j \in (i + 1)..Len(t) : t[j] # "."
    ELSE 0

\* The event-type short name of the specification: what follows the last ".".
ShortName(t) == SubSeq(t, LastDot(t) + 1, Len(t))

(***************************************************************************)
(* C15.  As claimed: the summary text is the event data and the attribute  *)
(* projection lists cluster name, cluster location, project identifier and *)
(* the short name of the type identifier (what follows its last `.`).      *)
(***************************************************************************)
C15_ProjectionHasShortName ==
    fprobe.done =>
        /\ fprobe.payload.text = fprobe.m.data
        /\ Len(fprobe.payload.attachments) = 1
        /\ [i \in 1..4 |-> fprobe.payload.attachments[1].text[i][2]]
              = <<fprobe.m.clusterName, fprobe.m.clusterLocation, fprobe.m.projectId,
                  ShortName(fprobe.m.typeUrl)>>

(***************************************************************************)
(* C15, amended.  The summary text is the event data and the attribute     *)
(* projection lists, in this fixed order, cluster name, cluster location,  *)
(* project identifier and the full type identifier, unshortened.           *)
(***************************************************************************)
C15_ProjectionHasFullTypeUrl ==
    fprobe.done =>
        /\ fprobe.payload.text = fprobe.m.data
        /\ Len(fprobe.payload.attachments) = 1
        /\ Len(fprobe.payload.attachments[1].text) = 4
        /\ [i \in 1..4 |-> fprobe.payload.attachments[1].text[i][1]]
              = <<"*cluster name:* ", "*cluster location:* ", "*project id:* ", "*type_url:* ">>
        /\ [i \in 1..4 |-> fprobe.payload.attachments[1].text[i][2]]
              = <<fprobe.m.clusterName, fprobe.m.clusterLocation, fprobe.m.projectId,
                  fprobe.m.typeUrl>>

C15_Witness ==
    /\ fprobe.done
    /\ fprobe.m.typeUrl = <<".", "F">>
    /\ fprobe.m.clusterName = "c1"
    /\ fprobe.m.clusterLocation = "europe-west1"
    /\ fprobe.payload.attachments[1].text[4][2] = <<".", "F">>

(***************************************************************************)
(* C16.  Requests are handled independently: in every interleaving each    *)
(* request's response, outbound calls and error are what its own body, its *)
(* own replies and the configuration decide; a step changes the state of   *)
(* one request only, and the configuration is never written.               *)
(***************************************************************************)
AsIfAlone(r) ==
    LET h == HandlerRun(body[r], allowedTypeUrls, slackWebhookUrl)
        call == <<OutboundRequest(slackWebhookUrl, slackRequestBody(h.m))>>
    IN
    CASE pc[r] = "idle" ->
            /\ resp[r] = NoResponse /\ sent[r] = <<>> /\ reply[r] = <<>>
            /\ err[r] = "none" /\ logs[r] = <<>>
      [] pc[r] = "awaiting" ->
            /\ h.send
            /\ resp[r] = NoResponse /\ sent[r] = call /\ reply[r] = <<>>
            /\ err[r] = "none" /\ logs[r] = h.logs
      [] pc[r] = "done" /\ h.send ->
            /\ Len(reply[r]) = 1
            /\ resp[r] = ImplicitOK /\ sent[r] = call
            /\ err[r] = Classify(reply[r][1])
      [] pc[r] = "done" /\ ~h.send ->
            /\ resp[r] = h.resp /\ sent[r] = <<>> /\ reply[r] = <<>>
            /\ err[r] = h.err /\ logs[r] = h.logs

C16_RequestsIndependent ==
    /\ [](\A r \in Requests : AsIfAlone(r))
    /\ [][/\ UNCHANGED <<allowedTypeUrls, slackWebhookUrl, verbose>>
          /\ \E r \in Requests : \A q \in Requests \ {r} :
                /\ pc'[q] = pc[q] /\ body'[q] = body[q] /\ resp'[q] = resp[q]
                /\ sent'[q] = sent[q] /\ reply'[q] = reply[q] /\ err'[q] = err[q]
                /\ logs'[q] = logs[q]]_vars

C16_Witness ==
    \E r, q \in Requests :
        /\ r # q
        /\ pc[r] = "done" /\ err[r] = "non-ok"
        /\ pc[q] = "done" /\ err[q] = "nil"
        /\ body[r] # body[q]

(***************************************************************************)
(* C17.  Every inbound request eventually reaches a terminal state of the  *)
(* handler and stays there with the one response it gave, provided every   *)
(* outbound call eventually returns or times out.                          *)
(***************************************************************************)
C17_EveryRequestTerminates ==
    /\ \A r \in Requests :
          [](pc[r] # "idle" => <>(pc[r] = "done" /\ resp[r].status \in {200, 400, 500}))
    /\ [](\A r \in Requests : pc[r] = "done" <=> resp[r] # NoResponse)
    /\ [][\A r \in Requests :
            pc[r] = "done" => (pc'[r] = "done" /\ resp'[r] = resp[r] /\ sent'[r] = sent[r])]_vars

C17_Witness ==
    \E r \in Requests :
        /\ pc[r] = "done"
        /\ Len(reply[r]) = 1
        /\ reply[r][1].transportErr
        /\ resp[r] # NoResponse

(***************************************************************************)
(* C18.  As claimed: no request ends on a path other than a successful     *)
(* delivery without a log event.                                           *)
(***************************************************************************)
C18_EveryNonSuccessLogged ==
    \A r \in Requests :
        (pc[r] = "done" /\ err[r] # "nil") => logs[r] # <<>>

(***************************************************************************)
(* C18, amended.  A read or decode error, a filter rejection and a         *)
(* delivery failure each emit a log event (info, info, error) before the   *)
(* request ends; a request that ends because its event data or its type    *)
(* identifier is empty emits no log event of level info or above.          *)
(***************************************************************************)
HasLog(r, level, msg) ==
    \E i \in 1..Len(logs[r]) : logs[r][i] = [level |-> level, msg |-> msg]

C18_LoggedPaths ==
    \A r \in Requests :
        pc[r] = "done" =>
            /\ body[r].kind = "unreadable" => HasLog(r, "info", "ioutil.ReadAll")
            /\ (body[r].kind # "unreadable" /\ ~WellFormed(body[r])) =>
                  HasLog(r, "info", "json.Unmarshal")
            /\ (/\ WellFormed(body[r])
                /\ EventData(body[r]) # ""
                /\ body[r].typeUrl # EmptyString
                /\ allowedTypeUrls # EmptyString
                /\ ~IsEntry(body[r].typeUrl, allowedTypeUrls)) =>
                  HasLog(r, "info", "not on allowed list, skipping")
            /\ DeliveryFailed(r) =>
                  logs[r][Len(logs[r])] = [level |-> "error", msg |-> "Sending slack message fail"]
            /\ (WellFormed(body[r])
                /\ (EventData(body[r]) = "" \/ body[r].typeUrl = EmptyString)) =>
                  \A i \in 1..Len(logs[r]) : logs[r][i].level = "debug"

C18_Witness ==
    \E r \in Requests :
        /\ pc[r] = "done"
        /\ body[r] = [kind |-> "object", data |-> "", typeUrl |-> <<"x">>]
        /\ ~verbose
        /\ logs[r] = <<>>
====
